---- MODULE Spec2Model ----
(***************************************************************************)
(* Model of the deep-code publishers: GitHubAutomation (the Git/GitHub     *)
(* steps), GitHubPublisher / DatasetPublisher / WorkflowPublisher          *)
(* (tools/publish.py) and ProductPublisher (api/publish.py).               *)
(*                                                                         *)
(* One Python process drives the publishers; every external call (an HTTP  *)
(* request, a git or rm subprocess, a dataset open) is one step whose      *)
(* outcome the environment chooses.  The local file system, the process's  *)
(* working directory and the remote fork are the record w.                 *)
(*                                                                         *)
(* Spec is that process.  LinkerSpec runs the record builder and the       *)
(* catalog linker alone, over the catalogs a sequence of merged publishes  *)
(* produces; ConcSpec runs the publish steps of two processes that share   *)
(* a home directory.                                                       *)
(***************************************************************************)
EXTENDS Integers, Sequences, FiniteSets, TLC

\* ------------------------------------------------------------------ bounds
\* Number of driver operations (constructions and publish calls) in one run.
MaxOps == 4
\* Largest value of the wall clock (seconds) that stamps dataset branch names.
MaxClock == 1

\* --------------------------------------------------------------- constants
None == "None"

\* Identifiers and names are sequences of characters, so that normalisation
\* and path building are computed; NoneName is Python's None where a name is
\* expected.
NoneName == <<None>>

OSC_BRANCH_NAME == "add-new-collection"
WORKFLOW_BRANCH_NAME == "WF_BRANCH_NAME"
OSC_NEW_BRANCH_NAME == "OSC_NEW_BRANCH_NAME"

\* The documents a .gitaccess / git.yaml file can hold: each key is absent
\* (None), present but empty, or set.
CredValues == {None, "", "set"}
CredDocs == [username : CredValues, token : CredValues]

\* Identifiers a dataset config can hold.
IdValues == {NoneName, <<>>, <<"c">>}

\* Values of a workflow config's workflow_id.
WorkflowNames == {NoneName, <<>>, <<"W", " ", "f">>, <<"w", "-", "f">>}

\* A data variable: its key in the dataset and the attributes the generator
\* reads; an attribute the variable lacks is None.
Variable(name, long_name, standard_name, url) == [name |-> name, long_name |-> long_name, standard_name |-> standard_name, gcmd_keyword_url |-> url]

\* A data variable with neither long_name nor standard_name.
DataVar(name, url) == Variable(name, NoneName, NoneName, url)

DataVarLists ==
    {<<>>,
     <<DataVar(<<"V">>, None), DataVar(<<"v">>, "gcmd_keyword_url")>>,
     <<DataVar(<<"v">>, None), DataVar(<<"u">>, "gcmd_keyword_url")>>}

VARIABLES
    w,      \* the world: working directory, local clone, remote fork
    pc,     \* position of the process: "idle" between calls, else the step due
    pub,    \* the publisher instance the driver holds
    run,    \* the call in progress (or the last one): arguments and locals
    log,    \* the Git/GitHub steps of the current publish, with their outcome
    exc,    \* the exception pending while the finally block runs
    last,   \* how the last finished call ended
    calls,  \* Git/GitHub calls made since the publisher's construction began
    opens,  \* open_data attempts made by the current call
    base,   \* the remote state when the publisher's construction began
    ops,    \* number of driver operations so far
    now,    \* the wall clock
    conc,   \* publishes of several processes that overlap in time
    gen     \* a generator instance on its own: its dataset, what its methods
            \* returned, and the products index whose titles were cleaned

vars ==
    <<w, pc, pub, run, log, exc, last, calls, opens, base, ops, now, conc, gen>>

\* -------------------------------------------------------------- exceptions
NoExc == [cls |-> "none", detail |-> "", cause |-> "none"]

Exc(cls, detail) == [cls |-> cls, detail |-> detail, cause |-> "none"]

\* subprocess.run(..., check=True) raising for a git command.
CalledProcessError(cmd) == Exc("CalledProcessError", cmd)

\* response.raise_for_status() raising for a GitHub request.
HTTPError(url) == Exc("HTTPError", url)

\* ------------------------------------------------------------- the world
Parent(d) ==
    CASE d = "clone" -> "home"
      [] d = "work" -> "home"
      [] d = "home" -> "root"
      [] OTHER -> "root"

BranchName(prefix, id, ts) == [prefix |-> prefix, id |-> id, ts |-> ts]

NoBranch == BranchName("", <<>>, <<>>)

MainBranch == BranchName("main", <<>>, <<>>)

NoRepo == [head |-> NoBranch, tree |-> {}, staged |-> {}, committed |-> {}]

\* Whether git commands run inside the working copy.
InRepo(x) == x.cwd = "clone" /\ x.dir

Remote(x) == [fork |-> x.fork, pushed |-> x.pushed, prs |-> x.prs]

RemoteNames(x) == {b.name : b \in x.pushed}

\* Python values a call can return: None, or the html_url GitHub answers for
\* the n-th pull request.
NoneValue == [type |-> "NoneType", n |-> 0]

PrUrl(n) == [type |-> "str", n |-> n]

\* No return statement has been executed.
Unset == [type |-> "unset", n |-> 0]

Ret(x, e, r) == [w |-> x, exc |-> e, ret |-> r]

\* GitHubAutomation.fork_repository
fork_repository(x, ok) ==
    IF ok THEN Ret([x EXCEPT !.fork = TRUE], NoExc, NoneValue)
    ELSE Ret(x, HTTPError("forks"), NoneValue)

\* GitHubAutomation.clone_repository: git clone, then os.chdir into the clone.
\* git refuses to clone into an existing non-empty directory.
clone_repository(x, ok) ==
    IF ok /\ x.fork /\ ~x.dir
    THEN Ret([x EXCEPT !.dir = TRUE, !.cwd = "clone",
                       !.repo = [NoRepo EXCEPT !.head = MainBranch]], NoExc, NoneValue)
    ELSE Ret(x, CalledProcessError("clone"), NoneValue)

\* GitHubAutomation.create_branch: git checkout -b in the current directory.
create_branch(x, b, ok) ==
    IF ok /\ InRepo(x)
    THEN Ret([x EXCEPT !.repo.head = b], NoExc, NoneValue)
    ELSE Ret(x, CalledProcessError("checkout"), NoneValue)

\* add_file without its `git add`: the file is written but never staged.
add_file_without_staging(x, path, ok) ==
    LET written == [x EXCEPT !.dir = TRUE, !.repo.tree = @ \cup {path}] IN
    IF ok /\ InRepo(x)
    THEN Ret(written, NoExc, NoneValue)
    ELSE Ret(written, CalledProcessError("add"), NoneValue)

\* GitHubAutomation.add_file: write the file under local_clone_dir (creating
\* parent directories), then git add.
add_file(x, path, ok) ==
    LET written == [x EXCEPT !.dir = TRUE, !.repo.tree = @ \cup {path}] IN
    IF ok /\ InRepo(x)
    THEN Ret([written EXCEPT !.repo.staged = @ \cup {path}], NoExc, NoneValue)
    ELSE Ret(written, CalledProcessError("add"), NoneValue)

\* GitHubAutomation.commit_and_push, first command: git commit.
git_commit(x, ok) ==
    IF ok /\ InRepo(x)
    THEN Ret([x EXCEPT !.repo.committed = x.repo.staged, !.repo.staged = {}],
             NoExc, NoneValue)
    ELSE Ret(x, CalledProcessError("commit"), NoneValue)

\* GitHubAutomation.commit_and_push, second command: git push -u origin.
\* A branch of that name already on the fork holds another commit: the push
\* is rejected.
git_push(x, b, ok) ==
    IF ok /\ InRepo(x) /\ b \notin RemoteNames(x)
    THEN Ret([x EXCEPT !.pushed = @ \cup
                 {[name |-> b, files |-> x.repo.committed]}], NoExc, NoneValue)
    ELSE Ret(x, CalledProcessError("push"), NoneValue)

\* create_pull_request whose head is the fork's default branch.
create_pull_request_from_main(x, b, ok) ==
    IF ok
    THEN Ret([x EXCEPT !.prs = Append(@, [head |-> MainBranch, base |-> "main",
                                          url |-> PrUrl(Len(x.prs) + 1)])],
             NoExc, NoneValue)
    ELSE Ret(x, HTTPError("pulls"), NoneValue)

\* GitHubAutomation.create_pull_request: the method computes pr_url from the
\* response and prints it; it has no return statement.
create_pull_request(x, b, ok) ==
    IF ok
    THEN Ret([x EXCEPT !.prs = Append(@, [head |-> b, base |-> "main",
                                          url |-> PrUrl(Len(x.prs) + 1)])],
             NoExc, NoneValue)
    ELSE Ret(x, HTTPError("pulls"), NoneValue)

\* clean_up that also deletes the checked-out branch from the fork.
clean_up_deleting_remote_branch(x, rmOk) ==
    LET up == [x EXCEPT !.cwd = Parent(x.cwd),
                        !.pushed = {b \in @ : b.name # x.repo.head}] IN
    IF rmOk
    THEN Ret([up EXCEPT !.dir = FALSE, !.repo = NoRepo], NoExc, NoneValue)
    ELSE Ret(up, NoExc, NoneValue)

\* clean_up without its os.chdir(".."): the process stays where it is.
clean_up_without_chdir(x, rmOk) ==
    IF rmOk
    THEN Ret([x EXCEPT !.dir = FALSE, !.repo = NoRepo], NoExc, NoneValue)
    ELSE Ret(x, NoExc, NoneValue)

\* clean_up running rm -rf with check=True: a failed removal raises.
clean_up_checking_rm(x, rmOk) ==
    LET up == [x EXCEPT !.cwd = Parent(x.cwd)] IN
    IF rmOk
    THEN Ret([up EXCEPT !.dir = FALSE, !.repo = NoRepo], NoExc, NoneValue)
    ELSE Ret(up, CalledProcessError("rm"), NoneValue)

\* GitHubAutomation.clean_up: os.chdir(".."), then rm -rf without check=True,
\* so a failed removal raises nothing.
clean_up(x, rmOk) ==
    LET up == [x EXCEPT !.cwd = Parent(x.cwd)] IN
    IF rmOk
    THEN Ret([up EXCEPT !.dir = FALSE, !.repo = NoRepo], NoExc, NoneValue)
    ELSE Ret(up, NoExc, NoneValue)

\* WorkflowPublisher._write_to_file: the path is relative, so the file lands
\* in the current directory (tracked when that is the working copy).
_write_to_file(x, path) ==
    IF InRepo(x) THEN [x EXCEPT !.repo.tree = @ \cup {path}] ELSE x

\* ------------------------------------------------------- pure functions
\* The check with `and` in place of `or`.
credentials_missing_both(c) ==
    c.username \in {None, ""} /\ c.token \in {None, ""}

\* `not self.github_username or not self.github_token`
credentials_missing(c) ==
    c.username \in {None, ""} \/ c.token \in {None, ""}

\* The check with `and` in place of `or`.
ids_missing_both(cfg) ==
    cfg.dataset_id \in {NoneName, <<>>} /\ cfg.collection_id \in {NoneName, <<>>}

\* `not dataset_id or not collection_id`
ids_missing(cfg) ==
    cfg.dataset_id \in {NoneName, <<>>} \/ cfg.collection_id \in {NoneName, <<>>}

NormalizeChar(c) ==
    CASE c = " " -> "-"
      [] c = "W" -> "w"
      [] c = "V" -> "v"
      [] c = "X" -> "x"
      [] c = "F" -> "f"
      [] c = "L" -> "l"
      [] c = "S" -> "s"
      [] c = "K" -> "k"
      [] OTHER -> c

\* `name.replace(" ", "-").lower() if name else None`
_normalize_name(name) ==
    IF name = NoneName \/ name = <<>> THEN NoneName
    ELSE [i \in DOMAIN name |-> NormalizeChar(name[i])]

\* store_configs with the authenticated store listed first.
store_configs_authenticated_first == <<"Authenticated store", "Public store">>

\* _open_dataset, store_configs: the descriptions of the two configurations.
store_configs == <<"Public store", "Authenticated store">>

\* What opening the dataset on each store does: it opens ("ok") or raises
\* the named exception.
StoreOutcomes(public, authenticated) ==
    ("Public store" :> public) @@ ("Authenticated store" :> authenticated)

\* _open_dataset, the loop over store_configs from the i-th configuration
\* on: the description is recorded, a store that opens ends the loop, a
\* failure is kept as last_exception; the ValueError after the loop carries
\* the descriptions tried and the last exception.
RECURSIVE open_loop(_, _, _, _)
open_loop(i, outcomes, tried_configurations, last_exception) ==
    IF i > Len(store_configs)
    THEN [ok |-> FALSE, attempts |-> Len(tried_configurations),
          tried |-> tried_configurations, last_exception |-> last_exception,
          exc |-> [cls |-> "ValueError",
                   detail |-> "Failed to open Zarr dataset",
                   cause |-> "none"]]
    ELSE LET tried == Append(tried_configurations, store_configs[i]) IN
         IF outcomes[store_configs[i]] = "ok"
         THEN [ok |-> TRUE, attempts |-> Len(tried), tried |-> tried,
               last_exception |-> last_exception, exc |-> NoExc]
         ELSE open_loop(i + 1, outcomes, tried, outcomes[store_configs[i]])

\* OscDatasetStacGenerator._open_dataset: the public store first, the
\* authenticated store second, one ValueError when both fail.
_open_dataset(outcomes) == open_loop(1, outcomes, <<>>, None)

\* OscDatasetStacGenerator.build_dataset_stac_collection: extraction errors
\* are re-raised as "Metadata extraction failed", a failed extension
\* validation as "OSC Extension validation failed".
build_dataset_stac_collection(outcome) ==
    CASE outcome = "extraction" ->
           [cls |-> "ValueError", detail |-> "Metadata extraction failed",
            cause |-> "ValueError"]
      [] outcome = "validation" ->
           [cls |-> "ValueError", detail |-> "OSC Extension validation failed",
            cause |-> "ValueError"]
      [] OTHER -> NoExc

\* ------------------------------------------------------ catalog documents
\* A document is its sequence of links; a link target is a prefix (a relative
\* step such as "../..", or the base URL of an absolute link) followed by
\* section, id and file name.
Href(prefix, section, id, file) == <<prefix, section, id, file>>

Link(rel, target) == [rel |-> rel, target |-> target]

Doc(links) == [links |-> links]

OSC_BASE_URL == "https://esa-earthcode.github.io/open-science-catalog-metadata"
BASE_URL_OSC == "BASE_URL_OSC"
GCMD_KEYWORD_URL == "gcmd_keyword_url"
DEEPESDL_PROJECT == <<"deep-earth-system-data-lab">>

RootLink == Link("root", Href("../..", "", <<>>, "catalog.json"))

ParentLink == Link("parent", Href("..", "", <<>>, "catalog.json"))

\* The child link a variable catalog (or the project collection) holds for
\* a dataset collection.
ProductChildLink(collection_id) ==
    Link("child", Href("../..", "products", collection_id, "collection.json"))

\* pystac's set_self_href: the self link is replaced by one with the href.
set_self_href(doc, href) ==
    Doc(SelectSeq(doc.links, LAMBDA l : l.rel # "self")
        \o <<Link("self", href)>>)

add_link(doc, link) == Doc(Append(doc.links, link))

\* A dict as the sequence of its items, in insertion order.  Assigning to a
\* key it holds replaces the value in place; a new key is appended.
list_append(d, k, v) == Append(d, [key |-> k, value |-> v])

dict_set(d, k, v) ==
    IF \E i \in DOMAIN d : d[i].key = k
    THEN [i \in DOMAIN d |-> IF d[i].key = k THEN [key |-> k, value |-> v]
                              ELSE d[i]]
    ELSE Append(d, [key |-> k, value |-> v])

Keys(d) == [i \in DOMAIN d |-> d[i].key]

Range(s) == {s[i] : i \in DOMAIN s}

Value(d, k) == d[CHOOSE i \in DOMAIN d : d[i].key = k].value

\* Python truth of a string: None and the empty string are false.
Truthy(name) == name # NoneName /\ name # <<>>

\* extract_metadata_for_variable with standard_name tried before long_name.
extract_metadata_standard_name_first(variable_data) ==
    LET title == IF Truthy(variable_data.standard_name)
                 THEN variable_data.standard_name
                 ELSE IF Truthy(variable_data.long_name)
                 THEN variable_data.long_name
                 ELSE variable_data.name
    IN [variable_id |-> _normalize_name(title),
        gcmd_keyword_url |-> variable_data.gcmd_keyword_url]

\* extract_metadata_for_variable: the title is
\* `long_name or standard_name or variable_data.name`, the id the normalized
\* title.
extract_metadata_for_variable(variable_data) ==
    LET title == IF Truthy(variable_data.long_name)
                 THEN variable_data.long_name
                 ELSE IF Truthy(variable_data.standard_name)
                 THEN variable_data.standard_name
                 ELSE variable_data.name
    IN [variable_id |-> _normalize_name(title),
        gcmd_keyword_url |-> variable_data.gcmd_keyword_url]

\* get_variables_metadata keeping, for an id met again, the entry of the
\* first variable with that id.
get_variables_metadata_keeping_first(data_vars) ==
    LET items == [i \in DOMAIN data_vars |->
                    [i |-> i, md |-> extract_metadata_for_variable(data_vars[i])]]
        firsts == SelectSeq(items, LAMBDA it :
                     \A j \in 1..(it.i - 1) :
                        items[j].md.variable_id # it.md.variable_id)
    IN [k \in DOMAIN firsts |->
          [key |-> firsts[k].md.variable_id, value |-> firsts[k].md]]

\* get_variables_metadata: a dict from variable id to metadata.
RECURSIVE get_variables_metadata(_)
get_variables_metadata(data_vars) ==
    IF data_vars = <<>> THEN <<>>
    ELSE LET var_metadata ==
                 extract_metadata_for_variable(data_vars[Len(data_vars)])
         IN dict_set(get_variables_metadata(
                         SubSeq(data_vars, 1, Len(data_vars) - 1)),
                     var_metadata.variable_id, var_metadata)

get_variable_ids(variables_metadata) == Keys(variables_metadata)

\* _add_gcmd_link_to_var_catalog with its guard dropped.
_add_gcmd_link_always(var_catalog, var_metadata) ==
    add_link(var_catalog,
             Link("via", Href(GCMD_KEYWORD_URL, "", <<>>, "")))

\* _add_gcmd_link_to_var_catalog: a via link when the metadata has a URL.
_add_gcmd_link_to_var_catalog(var_catalog, var_metadata) ==
    IF var_metadata.gcmd_keyword_url = None THEN var_catalog
    ELSE add_link(var_catalog,
                  Link("via", Href(var_metadata.gcmd_keyword_url, "", <<>>, "")))

\* build_variable_catalog: root, child (the dataset's collection), parent,
\* the GCMD link, then the self link.
build_variable_catalog(collection_id, var_metadata) ==
    set_self_href(
        _add_gcmd_link_to_var_catalog(
            Doc(<<RootLink, ProductChildLink(collection_id), ParentLink>>),
            var_metadata),
        Href(OSC_BASE_URL, "variables", var_metadata.variable_id,
             "catalog.json"))

\* update_existing_variable_catalog: the child link is added without a look
\* at the links the loaded catalog has.
update_existing_variable_catalog(collection_id, existing_catalog, var_id) ==
    set_self_href(
        add_link(existing_catalog, ProductChildLink(collection_id)),
        Href(OSC_BASE_URL, "variables", var_id, "catalog.json"))

RECURSIVE RelatedLinks(_)
RelatedLinks(variables) ==
    IF variables = <<>> THEN <<>>
    ELSE Append(RelatedLinks(SubSeq(variables, 1, Len(variables) - 1)),
                Link("related",
                     Href("../..", "varibales", variables[Len(variables)],
                          "catalog.json")))

\* build_dataset_stac_collection, the links of the collection it returns:
\* root, via (access), via (documentation, when given), parent, one related
\* link per variable, and a self link that does not depend on the id.
collection_document(collection_id, documentation_link, variables) ==
    set_self_href(
        Doc(<<RootLink, Link("via", Href("s3", "", <<>>, ""))>>
            \o (IF documentation_link
                THEN <<Link("via", Href("doc", "", <<>>, ""))>> ELSE <<>>)
            \o <<ParentLink>>
            \o RelatedLinks(variables)),
        Href(OSC_BASE_URL, "products", <<"deepesdl">>, "collection.json"))

\* WorkflowAsOgcRecord._generate_static_links, followed by the config's links
\* (none here).
workflow_static_links(id) ==
    Doc(<<RootLink, ParentLink,
          Link("child", Href("../..", "experiments", id, "record.json")),
          Link("jupyter-notebook", Href("jupyter_notebook_url", "", <<>>, "")),
          Link("self", Href(BASE_URL_OSC, "workflows", id, "record.json"))>>)

\* ExperimentAsOgcRecord._generate_static_links.
experiment_static_links(id) ==
    Doc(<<RootLink, ParentLink,
          Link("related", Href("../..", "workflows", id, "record.json")),
          Link("related",
               Href("../..", "projects", <<"deepesdl">>, "collection.json")),
          Link("input", Href(".", "", <<>>, "input.yaml")),
          Link("environment", Href(".", "", <<>>, "environment.yaml")),
          Link("self", Href(BASE_URL_OSC, "experiments", id, "record.json"))>>)

\* The working copy as the catalog sees it: a function from the paths of the
\* documents present to the documents.
file_exists(clone, path) == path \in DOMAIN clone

VariablePath(var_id) == <<"variables", var_id, "catalog.json">>
ProductPath(collection_id) == <<"products", collection_id, "collection.json">>
VariableBasePath == <<"variables", <<>>, "catalog.json">>
ProductBasePath == <<"products", <<>>, "catalog.json">>
DeepesdlCollectionPath == <<"projects", DEEPESDL_PROJECT, "collection.json">>

RECURSIVE VariableChildLinks(_)
VariableChildLinks(variable_ids) ==
    IF variable_ids = <<>> THEN <<>>
    ELSE Append(VariableChildLinks(
                    SubSeq(variable_ids, 1, Len(variable_ids) - 1)),
                Link("child", Href(".", "", variable_ids[Len(variable_ids)],
                                   "catalog.json")))

\* update_variable_base_catalog: the loaded index gains one child link per
\* variable id of the dataset.
update_variable_base_catalog(existing_catalog, variable_ids) ==
    set_self_href(
        Doc(existing_catalog.links \o VariableChildLinks(variable_ids)),
        Href(OSC_BASE_URL, "variables", <<>>, "catalog.json"))

\* update_product_base_catalog: the loaded index gains a child link to the
\* collection (append-only).
update_product_base_catalog(collection_id, existing_catalog) ==
    set_self_href(
        add_link(existing_catalog,
                 Link("child", Href(".", "", collection_id, "collection.json"))),
        Href(OSC_BASE_URL, "products", <<>>, "catalog.json"))

\* update_deepesdl_collection: the loaded project collection gains a child
\* link to the collection (append-only).
update_deepesdl_collection(collection_id, existing_collection) ==
    set_self_href(
        add_link(existing_collection, ProductChildLink(collection_id)),
        Href(OSC_BASE_URL, "projects", DEEPESDL_PROJECT, "collection.json"))

\* publish_dataset, the loop over variable_ids: a catalog absent from the
\* working copy is built, one present is loaded and updated.
RECURSIVE variable_catalogs(_, _, _, _, _)
variable_catalogs(file_dict, collection_id, variables_metadata, variable_ids, clone) ==
    IF variable_ids = <<>> THEN file_dict
    ELSE LET var_id == variable_ids[Len(variable_ids)]
             var_file_path == VariablePath(var_id)
         IN dict_set(
                variable_catalogs(file_dict, collection_id, variables_metadata,
                                  SubSeq(variable_ids, 1, Len(variable_ids) - 1),
                                  clone),
                var_file_path,
                IF ~file_exists(clone, var_file_path)
                THEN build_variable_catalog(
                         collection_id, Value(variables_metadata, var_id))
                ELSE update_existing_variable_catalog(
                         collection_id, clone[var_file_path], var_id))

\* publish_dataset with the products index written under the project
\* collection's path as well.
dataset_file_dict_index_as_project(collection_id, documentation_link, variables_metadata, clone) ==
    LET variable_ids == get_variable_ids(variables_metadata)
        products == dict_set(<<>>, ProductPath(collection_id),
                             collection_document(collection_id,
                                                 documentation_link,
                                                 variable_ids))
        variables == variable_catalogs(products, collection_id,
                                       variables_metadata, variable_ids, clone)
        variable_base == dict_set(variables, VariableBasePath,
                                  update_variable_base_catalog(
                                      clone[VariableBasePath], variable_ids))
        product_base == dict_set(variable_base, ProductBasePath,
                                 update_product_base_catalog(
                                     collection_id, clone[ProductBasePath]))
    IN dict_set(product_base, DeepesdlCollectionPath,
                update_product_base_catalog(
                    collection_id, clone[ProductBasePath]))

\* DatasetPublisher.publish_dataset: file_dict, from the collection, the
\* variable catalogs, the two indexes and the project collection.
dataset_file_dict(collection_id, documentation_link, variables_metadata, clone) ==
    LET variable_ids == get_variable_ids(variables_metadata)
        products == dict_set(<<>>, ProductPath(collection_id),
                             collection_document(collection_id,
                                                 documentation_link,
                                                 variable_ids))
        variables == variable_catalogs(products, collection_id,
                                       variables_metadata, variable_ids, clone)
        variable_base == dict_set(variables, VariableBasePath,
                                  update_variable_base_catalog(
                                      clone[VariableBasePath], variable_ids))
        product_base == dict_set(variable_base, ProductBasePath,
                                 update_product_base_catalog(
                                     collection_id, clone[ProductBasePath]))
    IN dict_set(product_base, DeepesdlCollectionPath,
                update_deepesdl_collection(
                    collection_id, clone[DeepesdlCollectionPath]))

\* file_dict without the experiment record's entry.
workflow_file_dict_workflow_only(workflow_id) ==
    dict_set(<<>>, <<"workflow", workflow_id, "record.json">>,
             workflow_static_links(workflow_id))

\* WorkflowPublisher.publish_workflow_experiment: file_dict, the workflow
\* record and the experiment record.
workflow_file_dict(workflow_id) ==
    dict_set(dict_set(<<>>, <<"workflow", workflow_id, "record.json">>,
                      workflow_static_links(workflow_id)),
             <<"experiments", workflow_id, "record.json">>,
             experiment_static_links(workflow_id))

\* ProductPublisher.publish_product: the one file it adds.
product_file_dict(collection_id) ==
    << <<"products", collection_id, "collection.json">> >>

\* ------------------------------------------------- the generator alone
\* The coordinates a dataset can have, each with the values of its array.
CoordNames == {"lon", "lat", "longitude", "latitude", "x", "y"}

CoordValues(name) ==
    CASE name = "lon" -> <<20, 10, 30>>
      [] name = "lat" -> <<2, 1>>
      [] name = "longitude" -> <<31, 11>>
      [] name = "latitude" -> <<5, 4, 6>>
      [] name = "x" -> <<300, 100>>
      [] OTHER -> <<7>>

\* A dataset: the names of its coordinates and its data variables.
Dataset(coords, data_vars) == [coords |-> coords, data_vars |-> data_vars]

NoDataset == Dataset({}, <<>>)

\* DataArray.min() and .max()
Min(array) == CHOOSE m \in Range(array) : \A v \in Range(array) : m <= v

Max(array) == CHOOSE m \in Range(array) : \A v \in Range(array) : m >= v

\* SpatialExtent([[a_min, b_min, a_max, b_max]]) of the coordinates a and b.
Bbox(a, b) ==
    [exc |-> NoExc,
     bbox |-> <<Min(CoordValues(a)), Min(CoordValues(b)),
                Max(CoordValues(a)), Max(CoordValues(b))>>]

\* _get_spatial_extent with the (x, y) branch tested first.
_get_spatial_extent_xy_first(dataset) ==
    IF {"x", "y"} \subseteq dataset.coords THEN Bbox("x", "y")
    ELSE IF {"lon", "lat"} \subseteq dataset.coords THEN Bbox("lon", "lat")
    ELSE IF {"longitude", "latitude"} \subseteq dataset.coords
    THEN Bbox("longitude", "latitude")
    ELSE [exc |-> Exc("ValueError", "Dataset does not have recognized spatial coordinates"), bbox |-> <<>>]

\* OscDatasetStacGenerator._get_spatial_extent: the first of (lon, lat),
\* (longitude, latitude), (x, y) that dataset.coords holds both names of;
\* a ValueError when it holds none of the pairs.
_get_spatial_extent(dataset) ==
    IF {"lon", "lat"} \subseteq dataset.coords THEN Bbox("lon", "lat")
    ELSE IF {"longitude", "latitude"} \subseteq dataset.coords
    THEN Bbox("longitude", "latitude")
    ELSE IF {"x", "y"} \subseteq dataset.coords THEN Bbox("x", "y")
    ELSE [exc |-> Exc("ValueError", "Dataset does not have recognized spatial coordinates"), bbox |-> <<>>]

\* Characters outside ASCII that a title can hold: the non-breaking space
\* U+00A0, the degree sign U+00B0, the letter A with circumflex U+00C2.
NBSP == "U+00A0"
DEGREE == "U+00B0"
A_CIRCUMFLEX == "U+00C2"

\* str.replace for a single character.
RECURSIVE replace(_, _, _)
replace(title, old, new) ==
    IF title = <<>> THEN <<>>
    ELSE (IF Head(title) = old THEN new ELSE <<Head(title)>>)
         \o replace(Tail(title), old, new)

\* DatasetPublisher.clean_title: U+00A0 becomes a space, U+00B0 becomes the
\* two characters U+00C2 U+00B0 of the source's replacement string.
clean_title(title) ==
    replace(replace(title, NBSP, <<" ">>), DEGREE, <<A_CIRCUMFLEX, DEGREE>>)

\* A catalog as its title and the rel and title of its links; a title that
\* is not a str is NoneName.
TitledLink(rel, title) == [rel |-> rel, title |-> title]

TitledCatalog(title, links) == [title |-> title, links |-> links]

NoIndex == TitledCatalog(NoneName, <<>>)

\* DatasetPublisher.clean_catalog_titles: the title of the catalog and of
\* each of its links, when a str, is replaced by clean_title of it.  The
\* catalogs the method loads by following child links are separate objects
\* that it cleans and drops: nothing of them is part of the catalog.
clean_catalog_titles(catalog) ==
    TitledCatalog(
        IF catalog.title = NoneName THEN NoneName
        ELSE clean_title(catalog.title),
        [i \in DOMAIN catalog.links |->
            TitledLink(catalog.links[i].rel,
                       IF catalog.links[i].title = NoneName THEN NoneName
                       ELSE clean_title(catalog.links[i].title))])

NoExtent == [called |-> FALSE, exc |-> NoExc, bbox |-> <<>>]

\* No generator has been constructed.
NoGen ==
    [state |-> "none", outcomes |-> StoreOutcomes("ok", "ok"),
     dataset |-> NoDataset, attempts |-> 0, tried |-> <<>>,
     last_exception |-> None, exc |-> NoExc, variables_metadata |-> <<>>,
     extent |-> NoExtent, index |-> NoIndex, cleaned |-> NoIndex]

\* ------------------------------------------------------- control flow
\* GitHubPublisher.__init__: no try block, every failure propagates.
init_next(p, ok) ==
    IF ~ok THEN "raise"
    ELSE CASE p = "init_creds" -> "init_fork"
           [] p = "init_fork" -> "init_clone"
           [] OTHER -> "return"

\* DatasetPublisher.publish_dataset up to its publish_files call: no try
\* block, every failure propagates.
publish_dataset_next(p, ok) ==
    IF ~ok THEN "raise"
    ELSE CASE p = "pd_ids" -> "pd_open"
           [] p = "pd_open" -> "pd_build"
           [] p = "pd_build" -> "pd_link"
           [] OTHER -> "pf_branch"

\* WorkflowPublisher.publish_workflow_experiment: the id check, then either
\* the local write (write_to_file) or the publish_files call.
publish_workflow_experiment_next(ok, write_to_file) ==
    IF ~ok THEN "raise"
    ELSE IF write_to_file THEN "return" ELSE "pf_branch"

\* publish_files catching a failed add_file and going on with the loop.
publish_files_skipping_failed_add(p, ok, more) ==
    IF ~ok /\ p # "pf_add" THEN "pf_cleanup"
    ELSE CASE p = "pf_branch" -> IF more THEN "pf_add" ELSE "pf_commit"
           [] p = "pf_add" -> IF more THEN "pf_add" ELSE "pf_commit"
           [] p = "pf_commit" -> "pf_push"
           [] p = "pf_push" -> "pf_pr"
           [] OTHER -> "pf_cleanup"

\* publish_files with the cleanup after the body instead of in a finally
\* block: a failing step propagates at once.
publish_files_without_finally(p, ok, more) ==
    IF ~ok THEN "raise"
    ELSE CASE p = "pf_branch" -> IF more THEN "pf_add" ELSE "pf_commit"
           [] p = "pf_add" -> IF more THEN "pf_add" ELSE "pf_commit"
           [] p = "pf_commit" -> "pf_push"
           [] p = "pf_push" -> "pf_pr"
           [] OTHER -> "pf_cleanup"

\* GitHubPublisher.publish_files, the try body: a failure leaves the body for
\* the finally block.
publish_files_next(p, ok, more) ==
    IF ~ok THEN "pf_cleanup"
    ELSE CASE p = "pf_branch" -> IF more THEN "pf_add" ELSE "pf_commit"
           [] p = "pf_add" -> IF more THEN "pf_add" ELSE "pf_commit"
           [] p = "pf_commit" -> "pf_push"
           [] p = "pf_push" -> "pf_pr"
           [] OTHER -> "pf_cleanup"

\* ProductPublisher.publish_product: the id check is outside the try block,
\* everything from the generator on is inside it.
publish_product_next(p, ok) ==
    IF p = "pp_ids" THEN (IF ok THEN "pp_open" ELSE "raise")
    ELSE IF ~ok THEN "pp_cleanup"
    ELSE CASE p = "pp_open" -> "pp_build"
           [] p = "pp_build" -> "pp_fork"
           [] p = "pp_fork" -> "pp_clone"
           [] p = "pp_clone" -> "pp_branch"
           [] p = "pp_branch" -> "pp_add"
           [] p = "pp_add" -> "pp_commit"
           [] p = "pp_commit" -> "pp_push"
           [] p = "pp_push" -> "pp_pr"
           [] OTHER -> "pp_cleanup"

\* Leaving a finally block: the pending exception, if any, is re-raised.
finally_exit(pending) ==
    IF pending # NoExc THEN "raise" ELSE "return"

InitPcs == {"init_creds", "init_fork", "init_clone"}
DatasetPcs == {"pd_ids", "pd_open", "pd_build", "pd_link"}
FilesPcs == {"pf_branch", "pf_add", "pf_commit", "pf_push", "pf_pr"}

\* The position after the step at position p ended (ok: it raised nothing).
NextPc(p, ok, more) ==
    IF p \in InitPcs THEN init_next(p, ok)
    ELSE IF p \in DatasetPcs THEN publish_dataset_next(p, ok)
    ELSE IF p \in FilesPcs THEN publish_files_next(p, ok, more)
    ELSE publish_product_next(p, ok)

\* The step of the publish sequence a position performs.
StepOf(p) ==
    CASE p \in {"init_fork", "pp_fork"} -> "fork"
      [] p \in {"init_clone", "pp_clone"} -> "clone"
      [] p \in {"pf_branch", "pp_branch"} -> "branch"
      [] p \in {"pf_add", "pp_add"} -> "add"
      [] p \in {"pf_commit", "pp_commit"} -> "commit"
      [] p \in {"pf_push", "pp_push"} -> "push"
      [] p \in {"pf_pr", "pp_pr"} -> "pr"
      [] p \in {"pf_cleanup", "pp_cleanup"} -> "cleanup"
      [] OTHER -> "none"

\* ------------------------------------------------------------ the state
NoConfig == [empty |-> TRUE, dataset_id |-> NoneName,
             collection_id |-> NoneName, documentation_link |-> None]

DatasetConfigs ==
    {NoConfig}
    \cup {[NoConfig EXCEPT !.empty = FALSE, !.dataset_id = d,
                           !.collection_id = c] :
            d \in IdValues, c \in IdValues}
    \cup {[NoConfig EXCEPT !.empty = FALSE, !.dataset_id = <<"c">>,
                           !.collection_id = <<"c">>,
                           !.documentation_link = "documentation_link"]}

NoCreds == [username |-> None, token |-> None]

NoPub == [kind |-> "none", creds |-> NoCreds, forked |-> FALSE,
          cloned |-> FALSE, ready |-> FALSE, used |-> FALSE,
          published |-> FALSE]

NoRun == [op |-> "none", cfg |-> NoConfig, name |-> NoneName,
          write_to_file |-> FALSE, data_vars |-> <<>>,
          variables_metadata |-> <<>>,
          file_dict |-> <<>>, files |-> <<>>,
          i |-> 1, branch |-> NoBranch, ret |-> Unset, prs0 |-> 0]

NewRun(op, x) == [NoRun EXCEPT !.op = op, !.prs0 = Len(x.prs)]

\* ------------------------------------------------ overlapping publishes
Procs == {1, 2}

\* GitHubAutomation.__init__: the clone directory is ~/temp_repo, for every
\* instance in every process.
local_clone_dir_per_process(p) == IF p = 1 THEN "temp_repo_1" ELSE "temp_repo_2"

local_clone_dir(p) == "temp_repo"

CloneDirs == {"temp_repo", "temp_repo_1", "temp_repo_2"}

NoDir == [exists |-> FALSE, repo |-> NoRepo]

\* No process is publishing.
NoConc ==
    [pc |-> [p \in Procs |-> "done"], cwd |-> [p \in Procs |-> "work"],
     dirs |-> [d \in CloneDirs |-> NoDir], fork |-> FALSE, pushed |-> {},
     prs |-> <<>>]

\* The catalog with its two indexes and the project collection, and no
\* dataset published yet.
SeedCatalog ==
    (VariableBasePath :>
        Doc(<<Link("self", Href(OSC_BASE_URL, "variables", <<>>,
                                "catalog.json"))>>))
    @@ (ProductBasePath :>
        Doc(<<Link("self", Href(OSC_BASE_URL, "products", <<>>,
                                "catalog.json"))>>))
    @@ (DeepesdlCollectionPath :>
        Doc(<<RootLink, ParentLink,
              Link("self", Href(OSC_BASE_URL, "projects", DEEPESDL_PROJECT,
                                "collection.json"))>>))

\* The catalog once a pull request with the batch file_dict is merged.
merged(catalog, file_dict) ==
    [path \in DOMAIN catalog \cup Range(Keys(file_dict)) |->
        IF path \in Range(Keys(file_dict)) THEN Value(file_dict, path)
        ELSE catalog[path]]

\* The seed with the collection "d" and its variable "v" already published.
PublishedCatalog ==
    merged(SeedCatalog,
           dataset_file_dict(<<"d">>, FALSE,
                             get_variables_metadata(
                                 <<DataVar(<<"v">>, None)>>),
                             SeedCatalog))

Init ==
    /\ w \in {[cwd |-> "work", dir |-> FALSE, fork |-> f, pushed |-> {},
               prs |-> <<>>, repo |-> NoRepo, catalog |-> PublishedCatalog] :
                 f \in BOOLEAN}
    /\ pc = "idle"
    /\ pub = NoPub
    /\ run = NoRun
    /\ log = <<>>
    /\ exc = NoExc
    /\ last = [op |-> "none", exc |-> NoExc]
    /\ calls = {}
    /\ opens = 0
    /\ base = Remote(w)
    /\ ops = 0
    /\ now = 0
    /\ conc = NoConc
    /\ gen = NoGen

\* How a step ends: the call goes on at `target`, or ends by raising e (or
\* the pending exception) or by returning.
Conclude(op, target, e) ==
    /\ pc' = IF target \in {"raise", "return"} THEN "idle" ELSE target
    /\ exc' = IF target \in {"raise", "return"} THEN NoExc
              ELSE IF e # NoExc THEN e ELSE exc
    /\ last' = CASE target = "raise" ->
                      [op |-> op, exc |-> IF e # NoExc THEN e ELSE exc]
                 [] target = "return" -> [op |-> op, exc |-> NoExc]
                 [] OTHER -> last

Logged(p, ok) == Append(log, [step |-> StepOf(p), ok |-> ok])

\* -------------------------------------------------------- constructors
\* GitHubPublisher.__init__ (through DatasetPublisher() or
\* WorkflowPublisher()), up to the credentials check; ProductPublisher.__init__
\* as a whole.
Construct(kind, c) ==
    /\ pc = "idle" /\ ops < MaxOps
    /\ ops' = ops + 1
    /\ run' = NewRun("init", w)
    /\ log' = <<>>
    /\ calls' = {}
    /\ opens' = 0
    /\ base' = Remote(w)
    /\ LET ok == ~credentials_missing(c)
           target == IF kind = "product"
                     THEN (IF ok THEN "return" ELSE "raise")
                     ELSE init_next("init_creds", ok)
       IN /\ pub' = [NoPub EXCEPT !.kind = kind, !.creds = c,
                                  !.ready = (target = "return")]
          /\ Conclude("init", target,
                      IF ok THEN NoExc
                      ELSE Exc("ValueError", "GitHub credentials are missing"))
    /\ UNCHANGED <<gen, conc, w, now>>

\* fork_repository, called by GitHubPublisher.__init__ or publish_product.
Fork ==
    /\ pc \in {"init_fork", "pp_fork"}
    /\ \E ok \in BOOLEAN :
         LET r == fork_repository(w, ok) IN
         /\ w' = r.w
         /\ log' = Logged(pc, r.exc = NoExc)
         /\ calls' = calls \cup {"fork"}
         /\ pub' = IF pc = "init_fork"
                   THEN [pub EXCEPT !.forked = (r.exc = NoExc)] ELSE pub
         /\ Conclude(run.op, NextPc(pc, r.exc = NoExc, FALSE), r.exc)
    /\ UNCHANGED <<gen, conc, run, opens, base, ops, now>>

\* clone_repository, called by GitHubPublisher.__init__ or publish_product.
Clone ==
    /\ pc \in {"init_clone", "pp_clone"}
    /\ \E ok \in BOOLEAN :
         LET r == clone_repository(w, ok)
             target == NextPc(pc, r.exc = NoExc, FALSE) IN
         /\ w' = r.w
         /\ log' = Logged(pc, r.exc = NoExc)
         /\ calls' = calls \cup {"clone"}
         /\ pub' = IF pc = "init_clone"
                   THEN [pub EXCEPT !.cloned = (r.exc = NoExc),
                                    !.ready = (target = "return")]
                   ELSE pub
         /\ Conclude(run.op, target, r.exc)
    /\ UNCHANGED <<gen, conc, run, opens, base, ops, now>>

\* ------------------------------------------------------- publish calls
\* A publish call starts a new step log unless it is the first call on a
\* GitHubPublisher, whose fork and clone the constructor has just logged.
CallLog == IF pub.kind = "product" \/ pub.used THEN <<>> ELSE log

\* DatasetPublisher.publish_dataset: read the config, check the identifiers.
PublishDataset(cfg) ==
    /\ pc = "idle" /\ ops < MaxOps
    /\ pub.ready /\ pub.kind = "dataset"
    /\ ops' = ops + 1
    /\ run' = [NewRun("publish_dataset", w) EXCEPT !.cfg = cfg]
    /\ log' = CallLog
    /\ pub' = [pub EXCEPT !.used = TRUE]
    /\ opens' = 0
    /\ Conclude("publish_dataset",
                publish_dataset_next("pd_ids", ~ids_missing(cfg)),
                IF ids_missing(cfg)
                THEN Exc("ValueError", "Dataset ID or Collection ID missing")
                ELSE NoExc)
    /\ UNCHANGED <<gen, conc, w, calls, base, now>>

\* ProductPublisher.publish_product: read the config (an empty document loads
\* as None, and None.get raises), check the identifiers.
PublishProduct(cfg) ==
    /\ pc = "idle" /\ ops < MaxOps
    /\ pub.ready /\ pub.kind = "product"
    /\ ops' = ops + 1
    /\ run' = [NewRun("publish_product", w) EXCEPT !.cfg = cfg]
    /\ log' = CallLog
    /\ pub' = [pub EXCEPT !.used = TRUE]
    /\ opens' = 0
    /\ LET e == IF cfg.empty THEN Exc("AttributeError", "NoneType.get")
                ELSE IF ids_missing(cfg)
                THEN Exc("ValueError", "Dataset ID or Collection ID is missing")
                ELSE NoExc
       IN Conclude("publish_product",
                   publish_product_next("pp_ids", e = NoExc), e)
    /\ UNCHANGED <<gen, conc, w, calls, base, now>>

\* WorkflowPublisher.publish_workflow_experiment up to its publish_files
\* call: normalise and check the id, build both records and file_dict.
PublishWorkflowExperiment(name, write_to_file) ==
    /\ pc = "idle" /\ ops < MaxOps
    /\ pub.ready /\ pub.kind = "workflow"
    /\ ops' = ops + 1
    /\ LET workflow_id == _normalize_name(name)
           ok == workflow_id # NoneName
       IN /\ run' = [NewRun("publish_workflow_experiment", w) EXCEPT
                       !.name = name,
                       !.write_to_file = write_to_file,
                       !.file_dict = IF ok THEN workflow_file_dict(workflow_id)
                                     ELSE <<>>,
                       !.files = IF ok
                                 THEN Keys(workflow_file_dict(workflow_id))
                                 ELSE <<>>,
                       !.branch = IF ok
                                  THEN BranchName(WORKFLOW_BRANCH_NAME,
                                                  workflow_id, <<>>)
                                  ELSE NoBranch]
          /\ Conclude("publish_workflow_experiment",
                      publish_workflow_experiment_next(ok, write_to_file),
                      IF ok THEN NoExc
                      ELSE Exc("ValueError", "workflow_id is missing"))
          /\ w' = IF ok /\ write_to_file
                  THEN _write_to_file(
                         _write_to_file(w, <<"workflow", workflow_id,
                                              "record.json">>),
                         <<"experiments", workflow_id, "record.json">>)
                  ELSE w
    /\ log' = CallLog
    /\ pub' = [pub EXCEPT !.used = TRUE]
    /\ opens' = 0
    /\ UNCHANGED <<gen, conc, calls, base, now>>

\* The generator's constructor: _open_dataset, then get_variables_metadata.
OpenDataset ==
    /\ pc \in {"pd_open", "pp_open"}
    /\ \E publicOk \in BOOLEAN, authOk \in BOOLEAN,
          data_vars \in DataVarLists :
         LET r == _open_dataset(StoreOutcomes(
                      IF publicOk THEN "ok" ELSE "DataStoreError",
                      IF authOk THEN "ok" ELSE "DataStoreError")) IN
         /\ opens' = opens + r.attempts
         /\ run' = [run EXCEPT
                      !.data_vars = IF r.ok THEN data_vars ELSE <<>>,
                      !.variables_metadata =
                         IF r.ok THEN get_variables_metadata(data_vars)
                         ELSE <<>>]
         /\ Conclude(run.op, NextPc(pc, r.ok, FALSE), r.exc)
    /\ UNCHANGED <<gen, conc, w, pub, log, calls, base, ops, now>>

\* build_dataset_stac_collection; publish_product then names its one file and
\* its branch.
BuildCollection ==
    /\ pc \in {"pd_build", "pp_build"}
    /\ \E outcome \in {"ok", "extraction", "validation"} :
         LET e == build_dataset_stac_collection(outcome) IN
         /\ run' = IF pc = "pp_build" /\ e = NoExc
                   THEN [run EXCEPT
                           !.files = product_file_dict(run.cfg.collection_id),
                           !.branch = BranchName(OSC_NEW_BRANCH_NAME, <<>>, <<>>)]
                   ELSE run
         /\ Conclude(run.op, NextPc(pc, e = NoExc, FALSE), e)
    /\ UNCHANGED <<gen, conc, w, pub, log, calls, opens, base, ops, now>>

\* publish_dataset: assemble file_dict, stamp the branch name with the clock.
FileDict ==
    dataset_file_dict(run.cfg.collection_id,
                      run.cfg.documentation_link # None,
                      run.variables_metadata, w.catalog)

LinkCatalog ==
    /\ pc = "pd_link"
    /\ \E t \in {now, now + 1} :
         /\ t <= MaxClock
         /\ now' = t
         /\ run' = [run EXCEPT
                      !.file_dict = FileDict,
                      !.files = Keys(FileDict),
                      !.branch = BranchName(OSC_BRANCH_NAME,
                                            run.cfg.collection_id, <<t>>)]
    /\ Conclude(run.op, NextPc(pc, TRUE, FALSE), NoExc)
    /\ UNCHANGED <<gen, conc, w, pub, log, calls, opens, base, ops>>

\* ---------------------------------------------- the publish sequence
\* create_branch, the first statement of publish_files (pub.published: the
\* instance has had a publish_files call) or publish_product's call of it.
CreateBranch ==
    /\ pc \in {"pf_branch", "pp_branch"}
    /\ \E ok \in BOOLEAN :
         LET r == create_branch(w, run.branch, ok) IN
         /\ w' = r.w
         /\ log' = Logged(pc, r.exc = NoExc)
         /\ Conclude(run.op,
                     NextPc(pc, r.exc = NoExc, run.i <= Len(run.files)),
                     r.exc)
    /\ pub' = IF pc = "pf_branch" THEN [pub EXCEPT !.published = TRUE]
              ELSE pub
    /\ calls' = calls \cup {"checkout"}
    /\ UNCHANGED <<gen, conc, run, opens, base, ops, now>>

\* One iteration of publish_files' loop over file_dict (publish_product's
\* single add_file call).
AddFile ==
    /\ pc \in {"pf_add", "pp_add"}
    /\ \E ok \in BOOLEAN :
         LET r == add_file(w, run.files[run.i], ok) IN
         /\ w' = r.w
         /\ log' = Logged(pc, r.exc = NoExc)
         /\ Conclude(run.op,
                     NextPc(pc, r.exc = NoExc, run.i + 1 <= Len(run.files)),
                     r.exc)
    /\ run' = [run EXCEPT !.i = @ + 1]
    /\ calls' = calls \cup {"add"}
    /\ UNCHANGED <<gen, conc, pub, opens, base, ops, now>>

Commit ==
    /\ pc \in {"pf_commit", "pp_commit"}
    /\ \E ok \in BOOLEAN :
         LET r == git_commit(w, ok) IN
         /\ w' = r.w
         /\ log' = Logged(pc, r.exc = NoExc)
         /\ Conclude(run.op, NextPc(pc, r.exc = NoExc, FALSE), r.exc)
    /\ calls' = calls \cup {"commit"}
    /\ UNCHANGED <<gen, conc, pub, run, opens, base, ops, now>>

Push ==
    /\ pc \in {"pf_push", "pp_push"}
    /\ \E ok \in BOOLEAN :
         LET r == git_push(w, run.branch, ok) IN
         /\ w' = r.w
         /\ log' = Logged(pc, r.exc = NoExc)
         /\ Conclude(run.op, NextPc(pc, r.exc = NoExc, FALSE), r.exc)
    /\ calls' = calls \cup {"push"}
    /\ UNCHANGED <<gen, conc, pub, run, opens, base, ops, now>>

\* create_pull_request; publish_files then executes `return pr_url`.
CreatePullRequest ==
    /\ pc \in {"pf_pr", "pp_pr"}
    /\ \E ok \in BOOLEAN :
         LET r == create_pull_request(w, run.branch, ok) IN
         /\ w' = r.w
         /\ log' = Logged(pc, r.exc = NoExc)
         /\ run' = IF pc = "pf_pr" /\ r.exc = NoExc
                   THEN [run EXCEPT !.ret = r.ret] ELSE run
         /\ Conclude(run.op, NextPc(pc, r.exc = NoExc, FALSE), r.exc)
    /\ calls' = calls \cup {"pulls"}
    /\ UNCHANGED <<gen, conc, pub, opens, base, ops, now>>

\* The finally block of publish_files and of publish_product.
CleanUp ==
    /\ pc \in {"pf_cleanup", "pp_cleanup"}
    /\ \E rmOk \in BOOLEAN :
         LET r == clean_up(w, rmOk) IN
         /\ w' = r.w
         /\ log' = Logged(pc, rmOk)
         /\ Conclude(run.op, finally_exit(exc), r.exc)
    /\ UNCHANGED <<gen, conc, pub, run, calls, opens, base, ops, now>>

Next ==
    \/ \E kind \in {"dataset", "workflow", "product"}, c \in CredDocs :
         Construct(kind, c)
    \/ Fork
    \/ Clone
    \/ \E cfg \in DatasetConfigs : PublishDataset(cfg)
    \/ \E cfg \in DatasetConfigs : PublishProduct(cfg)
    \/ \E name \in WorkflowNames, write_to_file \in BOOLEAN :
         PublishWorkflowExperiment(name, write_to_file)
    \/ OpenDataset
    \/ BuildCollection
    \/ LinkCatalog
    \/ CreateBranch
    \/ AddFile
    \/ Commit
    \/ Push
    \/ CreatePullRequest
    \/ CleanUp

Spec == Init /\ [][Next]_vars

\* ------------------------------------------- record builder and linker
\* The record builder and the catalog linker on their own: a publish builds
\* its batch from the catalog as it is, and the pull request is merged
\* before the next publish.
MaxPublishes == 2

LinkerConfigs ==
    {[NoConfig EXCEPT !.empty = FALSE, !.dataset_id = c, !.collection_id = c,
                      !.documentation_link = l] :
        c \in {<<"c">>, <<"d">>}, l \in {None, "documentation_link"}}

\* publish_dataset from the generator's construction to file_dict.
BuildDataset(cfg, data_vars) ==
    /\ pc = "idle" /\ ops < MaxPublishes
    /\ ~ids_missing(cfg)
    /\ ops' = ops + 1
    /\ pc' = "review"
    /\ LET variables_metadata == get_variables_metadata(data_vars)
           file_dict == dataset_file_dict(cfg.collection_id,
                                          cfg.documentation_link # None,
                                          variables_metadata, w.catalog)
       IN run' = [NewRun("publish_dataset", w) EXCEPT
                    !.cfg = cfg,
                    !.data_vars = data_vars,
                    !.variables_metadata = variables_metadata,
                    !.file_dict = file_dict,
                    !.files = Keys(file_dict)]
    /\ UNCHANGED <<gen, conc, w, pub, log, exc, last, calls, opens, base, now>>

\* publish_workflow_experiment from the id check to file_dict.
BuildWorkflow(name) ==
    /\ pc = "idle" /\ ops < MaxPublishes
    /\ _normalize_name(name) # NoneName
    /\ ops' = ops + 1
    /\ pc' = "review"
    /\ LET workflow_id == _normalize_name(name)
       IN run' = [NewRun("publish_workflow_experiment", w) EXCEPT
                    !.name = name,
                    !.file_dict = workflow_file_dict(workflow_id),
                    !.files = Keys(workflow_file_dict(workflow_id))]
    /\ UNCHANGED <<gen, conc, w, pub, log, exc, last, calls, opens, base, now>>

\* The pull request is merged: the catalog holds the batch.
Merge ==
    /\ pc = "review"
    /\ pc' = "idle"
    /\ w' = [w EXCEPT !.catalog = merged(w.catalog, run.file_dict)]
    /\ UNCHANGED <<gen, conc, pub, run, log, exc, last, calls, opens, base, ops, now>>

LinkerNext ==
    \/ \E cfg \in LinkerConfigs, data_vars \in DataVarLists :
         BuildDataset(cfg, data_vars)
    \/ \E name \in WorkflowNames : BuildWorkflow(name)
    \/ Merge

\* The linker starts from either catalog.
LinkerInit ==
    /\ w \in {[cwd |-> "work", dir |-> FALSE, fork |-> TRUE, pushed |-> {},
               prs |-> <<>>, repo |-> NoRepo, catalog |-> c] :
                 c \in {SeedCatalog, PublishedCatalog}}
    /\ pc = "idle"
    /\ pub = NoPub
    /\ run = NoRun
    /\ log = <<>>
    /\ exc = NoExc
    /\ last = [op |-> "none", exc |-> NoExc]
    /\ calls = {}
    /\ opens = 0
    /\ base = Remote(w)
    /\ ops = 0
    /\ now = 0
    /\ conc = NoConc
    /\ gen = NoGen

LinkerSpec == LinkerInit /\ [][LinkerNext]_vars

\* ------------------------------------------------ overlapping publishes
\* Two processes with the same home directory, each running one publish:
\* a GitHubPublisher's construction followed by publish_files, or a
\* publish_product call from its fork on.  Each process has its own working
\* directory; the file system and the fork are shared.

\* The world as process p sees it.
View(p) ==
    [cwd |-> IF conc.cwd[p] = local_clone_dir(p) THEN "clone" ELSE conc.cwd[p],
     dir |-> conc.dirs[local_clone_dir(p)].exists,
     repo |-> conc.dirs[local_clone_dir(p)].repo,
     fork |-> conc.fork, pushed |-> conc.pushed, prs |-> conc.prs]

\* The shared state once process p's call left the world x and p moved to
\* position target.  A process whose working directory was removed under it
\* is left in a deleted directory.
Seen(p, x, target) ==
    [conc EXCEPT
       !.pc[p] = IF target \in {"raise", "return"} THEN "done" ELSE target,
       !.cwd = [q \in Procs |->
                  IF q = p
                  THEN (IF x.cwd = "clone" THEN local_clone_dir(p) ELSE x.cwd)
                  ELSE IF conc.cwd[q] = local_clone_dir(p) /\ ~x.dir
                  THEN "deleted" ELSE conc.cwd[q]],
       !.dirs[local_clone_dir(p)] = [exists |-> x.dir, repo |-> x.repo],
       !.fork = x.fork, !.pushed = x.pushed, !.prs = x.prs]

ProcBranch(p) == BranchName(OSC_BRANCH_NAME, <<"c">>, <<p>>)

ProcFile(p) == <<"products", <<"c">>, "collection.json">>

\* The call process p makes at its position, with the outcome the
\* environment chooses.
ProcCall(p, ok) ==
    LET step == StepOf(conc.pc[p]) IN
    CASE step = "fork" -> fork_repository(View(p), ok)
      [] step = "clone" -> clone_repository(View(p), ok)
      [] step = "branch" -> create_branch(View(p), ProcBranch(p), ok)
      [] step = "add" -> add_file(View(p), ProcFile(p), ok)
      [] step = "commit" -> git_commit(View(p), ok)
      [] step = "push" -> git_push(View(p), ProcBranch(p), ok)
      [] step = "pr" -> create_pull_request(View(p), ProcBranch(p), ok)
      [] OTHER -> clean_up(View(p), ok)

\* One step of process p's publish.
ProcStep(p) ==
    /\ conc.pc[p] # "done"
    /\ \E ok \in BOOLEAN :
         LET r == ProcCall(p, ok)
             target == IF StepOf(conc.pc[p]) = "cleanup" THEN "return"
                       ELSE NextPc(conc.pc[p], r.exc = NoExc, FALSE)
         IN conc' = Seen(p, r.w, target)
    /\ UNCHANGED <<gen, w, pc, pub, run, log, exc, last, calls, opens, base,
                   ops, now>>

ConcNext == \E p \in Procs : ProcStep(p)

ConcInit ==
    /\ w \in {[cwd |-> "work", dir |-> FALSE, fork |-> FALSE, pushed |-> {},
               prs |-> <<>>, repo |-> NoRepo, catalog |-> SeedCatalog]}
    /\ pc = "idle"
    /\ pub = NoPub
    /\ run = NoRun
    /\ log = <<>>
    /\ exc = NoExc
    /\ last = [op |-> "none", exc |-> NoExc]
    /\ calls = {}
    /\ opens = 0
    /\ base = Remote(w)
    /\ ops = 0
    /\ now = 0
    /\ conc \in {[NoConc EXCEPT !.pc = start] :
                   start \in [Procs -> {"init_fork", "pp_fork"}]}
    /\ gen = NoGen

ConcSpec == ConcInit /\ [][ConcNext]_vars

\* ------------------------------------------------- the generator alone
\* One OscDatasetStacGenerator is constructed on a dataset, asked for its
\* spatial extent, and the products index loaded for its collection has its
\* titles cleaned.
OpenOutcomes == {"ok", "DataStoreError", "PermissionError"}

\* The values of a name attribute: absent, empty, set.
LongNames == {NoneName, <<>>, <<"L", " ", "n">>}

StandardNames == {NoneName, <<>>, <<"S">>}

GenVariableLists ==
    {<<>>}
    \cup {<<Variable(<<"K">>, l, s, None)>> :
            l \in LongNames, s \in StandardNames}
    \cup {<<Variable(<<"K">>, NoneName, <<"S">>, None),
            Variable(<<"s">>, NoneName, NoneName, "gcmd_keyword_url")>>,
          <<Variable(<<"K">>, <<"L", " ", "n">>, NoneName, None),
            Variable(<<"s">>, NoneName, NoneName, None)>>}

Datasets ==
    {Dataset(coords, data_vars) :
        coords \in SUBSET CoordNames, data_vars \in GenVariableLists}

\* The titles the products index and its links can carry.
Titles ==
    {NoneName, <<"a", " ", "b">>, <<"a", NBSP, "b">>, <<"5", DEGREE, "C">>}

IndexCatalogs ==
    {TitledCatalog(t, <<TitledLink("child", l)>>) :
        t \in {<<"P">>, <<"P", NBSP, DEGREE>>}, l \in Titles}

\* OscDatasetStacGenerator.__init__: _open_dataset, then
\* get_variables_metadata on the dataset opened.
NewGenerator(outcomes, dataset) ==
    /\ gen.state = "none"
    /\ LET r == _open_dataset(outcomes) IN
       gen' = [NoGen EXCEPT
                 !.state = IF r.ok THEN "open" ELSE "failed",
                 !.outcomes = outcomes,
                 !.dataset = IF r.ok THEN dataset ELSE NoDataset,
                 !.attempts = r.attempts,
                 !.tried = r.tried,
                 !.last_exception = r.last_exception,
                 !.exc = r.exc,
                 !.variables_metadata =
                    IF r.ok THEN get_variables_metadata(dataset.data_vars)
                    ELSE <<>>]
    /\ UNCHANGED <<w, pc, pub, run, log, exc, last, calls, opens, base, ops,
                   now, conc>>

\* build_dataset_stac_collection's call of _get_spatial_extent.
GetSpatialExtent ==
    /\ gen.state = "open" /\ ~gen.extent.called
    /\ LET r == _get_spatial_extent(gen.dataset) IN
       gen' = [gen EXCEPT !.extent = [called |-> TRUE, exc |-> r.exc,
                                      bbox |-> r.bbox]]
    /\ UNCHANGED <<w, pc, pub, run, log, exc, last, calls, opens, base, ops,
                   now, conc>>

\* publish_dataset: clean_catalog_titles on the products index it loaded and
\* updated, before the index goes into file_dict.
CleanCatalogTitles(index) ==
    /\ gen.state = "open" /\ gen.extent.called /\ gen.extent.exc = NoExc
    /\ gen.index = NoIndex
    /\ gen' = [gen EXCEPT !.index = index,
                          !.cleaned = clean_catalog_titles(index)]
    /\ UNCHANGED <<w, pc, pub, run, log, exc, last, calls, opens, base, ops,
                   now, conc>>

GenNext ==
    \/ \E public \in OpenOutcomes, authenticated \in OpenOutcomes,
          dataset \in Datasets :
         NewGenerator(StoreOutcomes(public, authenticated), dataset)
    \/ GetSpatialExtent
    \/ \E index \in IndexCatalogs : CleanCatalogTitles(index)

GenInit ==
    /\ w \in {[cwd |-> "work", dir |-> FALSE, fork |-> FALSE, pushed |-> {},
               prs |-> <<>>, repo |-> NoRepo, catalog |-> SeedCatalog]}
    /\ pc = "idle"
    /\ pub = NoPub
    /\ run = NoRun
    /\ log = <<>>
    /\ exc = NoExc
    /\ last = [op |-> "none", exc |-> NoExc]
    /\ calls = {}
    /\ opens = 0
    /\ base = Remote(w)
    /\ ops = 0
    /\ now = 0
    /\ conc = NoConc
    /\ gen = NoGen

GenSpec == GenInit /\ [][GenNext]_vars

\* ================================================================ claims
PublishOps == {"publish_dataset", "publish_workflow_experiment"}

HasStep(s) == \E i \in DOMAIN log : log[i].step = s

StepOk(s) == \E i \in DOMAIN log : log[i].step = s /\ log[i].ok

StepFailed(s) == \E i \in DOMAIN log : log[i].step = s /\ ~log[i].ok

\* The last call was a publish that entered publish_files and has ended.
PublishFilesEnded ==
    pc = "idle" /\ last.op \in PublishOps /\ HasStep("branch")

C2_AsStated ==
    (pc = "idle" /\ last.op \in PublishOps /\ last.exc # NoExc) => ~w.dir

Rank(s) ==
    CASE s = "fork" -> 1
      [] s = "clone" -> 2
      [] s = "branch" -> 3
      [] s = "add" -> 4
      [] s = "commit" -> 5
      [] s = "push" -> 6
      [] s = "pr" -> 7
      [] OTHER -> 8

SequenceSteps == {"fork", "clone", "branch", "add", "commit", "push", "pr"}

\* Step s had completed successfully when the j-th logged step started: in
\* this publish's log, or (fork and clone of a GitHubPublisher) in its
\* constructor; the write step is complete when every file has been added.
CompletedBefore(s, j) ==
    IF s = "add"
    THEN Cardinality({i \in 1..(j - 1) : log[i].step = "add" /\ log[i].ok})
            = Len(run.files)
    ELSE \/ \E i \in 1..(j - 1) : log[i].step = s /\ log[i].ok
         \/ pub.kind # "product" /\ s = "fork" /\ pub.forked
         \/ pub.kind # "product" /\ s = "clone" /\ pub.cloned

\* C3: the steps of a publish occur in the order fork, clone, branch, write
\* files, commit, push, pull request, cleanup; a step other than the cleanup
\* starts only when every earlier step has completed successfully; after a
\* failed step nothing but the cleanup follows.
C3_StrictSequence ==
    /\ \A i \in DOMAIN log : \A j \in DOMAIN log :
         i < j => \/ Rank(log[i].step) < Rank(log[j].step)
                  \/ log[i].step = "add" /\ log[j].step = "add"
    /\ \A j \in DOMAIN log :
         log[j].step # "cleanup" =>
            \A s \in SequenceSteps :
               Rank(s) < Rank(log[j].step) => CompletedBefore(s, j)
    /\ \A i \in DOMAIN log :
         (~log[i].ok /\ i < Len(log)) =>
            /\ log[i].step # "cleanup"
            /\ i + 1 = Len(log)
            /\ log[i + 1].step = "cleanup"

\* A publish whose push failed after every earlier step succeeded, followed
\* by the cleanup and nothing else.
C3_Witness ==
    /\ pc = "idle"
    /\ Len(log) >= 2
    /\ log[1].step = "fork"
    /\ StepOk("commit")
    /\ log[Len(log) - 1] = [step |-> "push", ok |-> FALSE]
    /\ log[Len(log)].step = "cleanup"

\* C4 as stated: when every step of a publish succeeded, publish_files
\* returned the html_url of the pull request it created.
C4_AsStated ==
    (PublishFilesEnded /\ last.exc = NoExc /\ StepOk("pr")) =>
        (Len(w.prs) > 0 /\ run.ret = w.prs[Len(w.prs)].url)

IsPrefix(s, t) == Len(s) <= Len(t) /\ SubSeq(t, 1, Len(s)) = s

\* C5: once the push of a publish has succeeded its branch is on the fork,
\* with no pull request opened if the pull-request step failed; and no step
\* removes a fork, a pushed branch or a pull request.
C5_NoRollback ==
    /\ [](StepOk("push") => run.branch \in RemoteNames(w))
    /\ []((StepOk("push") /\ StepFailed("pr")) => Len(w.prs) = run.prs0)
    /\ [][/\ w.fork => w'.fork
          /\ w.pushed \subseteq w'.pushed
          /\ IsPrefix(w.prs, w'.prs)]_vars

\* A publish that pushed its branch and failed to open the pull request has
\* ended: the branch is on the fork, no pull request was opened.
C5_Witness ==
    /\ pc = "idle"
    /\ StepOk("push") /\ StepFailed("pr") /\ HasStep("cleanup")
    /\ run.branch \in RemoteNames(w)
    /\ Len(w.prs) = run.prs0

FailedStep == CHOOSE i \in DOMAIN log : ~log[i].ok /\ log[i].step # "cleanup"

\* C6 as stated: when a step of the publish sequence failed, the error that
\* reaches the caller is a PublishError naming the failed step and carrying
\* the underlying cause.
C6_AsStated ==
    (pc = "idle" /\ last.exc # NoExc
       /\ \E i \in DOMAIN log : ~log[i].ok /\ log[i].step # "cleanup") =>
        /\ last.exc.cls = "PublishError"
        /\ last.exc.detail = log[FailedStep].step
        /\ last.exc.cause # "none"

GitCalls == {"fork", "clone", "checkout", "add", "commit", "push", "pulls"}

\* C7 as stated: a workflow publish whose config has no workflow_id has
\* raised with no Git or GitHub call made.
C7_AsStated ==
    (pc = "idle" /\ last.op = "publish_workflow_experiment"
       /\ run.name \in {NoneName, <<>>}) =>
        (last.exc # NoExc /\ calls \cap GitCalls = {})

\* C8 as stated: when a dataset publish has raised an extraction or
\* validation error, the remote state is what it was when the publish
\* began, and a rerun meets what a first run meets: no local clone in its
\* way.
C8_AsStated ==
    (pc = "idle" /\ last.op = "publish_dataset"
       /\ last.exc.detail \in {"Metadata extraction failed",
                               "OSC Extension validation failed"}) =>
        (Remote(w) = base /\ ~w.dir)

\* The credentials document lacks the username or the token, or holds an
\* empty value for one.
CredentialsLacking(c) ==
    \E v \in {c.username, c.token} : v = None \/ v = ""

\* C9: with a credentials document that lacks github-username or
\* github-token (absent or empty) the constructor raises the configuration
\* error, with no Git or GitHub call made and the remote untouched; no
\* constructor gets past its credentials check with such a document.
C9_MissingCredentialsFatal ==
    /\ (pc = "idle" /\ last.op = "init" /\ CredentialsLacking(pub.creds)) =>
          /\ last.exc = Exc("ValueError", "GitHub credentials are missing")
          /\ calls = {}
          /\ Remote(w) = base
          /\ ~pub.ready
    /\ (pc \in InitPcs => ~CredentialsLacking(pub.creds))

\* A constructor given a username and an empty token has raised.
C9_Witness ==
    /\ pc = "idle" /\ last.op = "init"
    /\ pub.creds = [username |-> "set", token |-> ""]
    /\ last.exc.cls = "ValueError"
    /\ calls = {}

\* The dataset config lacks dataset_id or collection_id (absent or empty).
IdsLacking(cfg) ==
    \E v \in {cfg.dataset_id, cfg.collection_id} : v = NoneName \/ v = <<>>

\* C10: with a dataset config that lacks dataset_id or collection_id,
\* publish_dataset raises its validation error and no attempt to open the
\* dataset is ever made by the call (publish_product makes none either).
C10_IdsCheckedBeforeOpen ==
    /\ (pc = "idle" /\ last.op = "publish_dataset" /\ IdsLacking(run.cfg)) =>
          last.exc = Exc("ValueError", "Dataset ID or Collection ID missing")
    /\ (run.op \in {"publish_dataset", "publish_product"}
          /\ IdsLacking(run.cfg)) => (opens = 0 /\ pc = "idle")

\* publish_dataset given a collection_id but no dataset_id has raised.
C10_Witness ==
    /\ pc = "idle" /\ last.op = "publish_dataset"
    /\ run.cfg = [NoConfig EXCEPT !.empty = FALSE,
                                  !.collection_id = <<"c">>]
    /\ last.exc.cls = "ValueError"
    /\ opens = 0

WorkflowPair(id) ==
    {<<"workflow", id, "record.json">>, <<"experiments", id, "record.json">>}

\* C11: the workflow record and the experiment record of one
\* publish_workflow_experiment call are keyed by the same normalized id, and
\* in every outcome they go together: the local commit and every pushed
\* workflow branch hold both workflow/<id>/record.json and
\* experiments/<id>/record.json, put there by one commit, or the branch was
\* not pushed at all.
C11_PairPublishedTogether ==
    /\ \A b \in w.pushed :
          b.name.prefix = WORKFLOW_BRANCH_NAME =>
             b.files = WorkflowPair(b.name.id)
    /\ (run.op = "publish_workflow_experiment" /\ run.branch # NoBranch) =>
          /\ run.branch.id = _normalize_name(run.name)
          /\ Range(run.files) = WorkflowPair(run.branch.id)
          /\ (StepOk("commit") /\ ~HasStep("cleanup")) =>
                w.repo.committed = WorkflowPair(run.branch.id)
          /\ Cardinality({i \in DOMAIN log : log[i].step = "commit"}) <= 1

\* A workflow publish of "W f" has pushed its branch: it holds both records
\* under the id "w-f".
C11_Witness ==
    /\ run.op = "publish_workflow_experiment"
    /\ run.name = <<"W", " ", "f">>
    /\ StepOk("push")
    /\ [name |-> BranchName(WORKFLOW_BRANCH_NAME, <<"w", "-", "f">>, <<>>),
        files |-> WorkflowPair(<<"w", "-", "f">>)] \in w.pushed

CommitPcs == {"pf_commit", "pp_commit"}

PushPcs == {"pf_push", "pp_push"}

\* C12: a publish makes at most one commit, and makes it only when every
\* entry of the file mapping has been written and staged; the push comes
\* only after that commit, and the branch it pushes holds every file of
\* the batch.
C12_OneCommitOfWholeBatch ==
    /\ Cardinality({i \in DOMAIN log : log[i].step = "commit"}) <= 1
    /\ pc \in CommitPcs =>
          /\ Range(run.files) \subseteq w.repo.tree
          /\ w.repo.staged = Range(run.files)
    /\ pc \in PushPcs =>
          /\ StepOk("commit")
          /\ w.repo.committed = Range(run.files)
    /\ StepOk("push") =>
          [name |-> run.branch, files |-> Range(run.files)] \in w.pushed

\* A dataset publish with a variable has pushed its branch after one commit
\* that followed the staging of all its files.
C12_Witness ==
    /\ run.op = "publish_dataset"
    /\ Len(run.files) >= 5
    /\ StepOk("push")
    /\ Cardinality({i \in DOMAIN log : log[i].step = "add" /\ log[i].ok})
          = Len(run.files)
    /\ [name |-> run.branch, files |-> Range(run.files)] \in w.pushed

\* The variable ids of the dataset of the current publish.
VariableIds == {_normalize_name(run.data_vars[i].name) : i \in DOMAIN run.data_vars}

\* The documents a dataset publish touches.
TouchedPaths ==
    {ProductPath(run.cfg.collection_id), VariableBasePath, ProductBasePath,
     DeepesdlCollectionPath}
    \cup {VariablePath(id) : id \in VariableIds}

DatasetBuilt == run.op = "publish_dataset" /\ run.file_dict # <<>>

\* C13: the batch of a dataset publish holds every touched document path
\* (the product collection, one catalog per variable id, the variables
\* index, the products index, the project collection) exactly once: no two
\* entries of the batch have the same path, whatever the variables and the
\* catalog met.
C13_EachPathOnce ==
    DatasetBuilt =>
        /\ \A i \in DOMAIN run.file_dict : \A j \in DOMAIN run.file_dict :
              i # j => run.file_dict[i].key # run.file_dict[j].key
        /\ Range(Keys(run.file_dict)) = TouchedPaths
        /\ run.files = Keys(run.file_dict)

\* A dataset with two data variables whose titles normalize to the same id
\* was built against a catalog that holds that variable: five documents.
C13_Witness ==
    /\ DatasetBuilt
    /\ Len(run.data_vars) = 2 /\ VariableIds = {<<"v">>}
    /\ file_exists(w.catalog, VariablePath(<<"v">>))
    /\ Len(run.file_dict) = 5

\* The batch of a dataset publish is built and its pull request not merged:
\* w.catalog is the catalog the publish met.
DatasetInReview == DatasetBuilt /\ pc = "review"

\* How many links of the document equal the link.
Count(doc, link) ==
    Cardinality({i \in DOMAIN doc.links : doc.links[i] = link})

CountRel(doc, rel) ==
    Cardinality({i \in DOMAIN doc.links : doc.links[i].rel = rel})

ChildLinks(doc) == SelectSeq(doc.links, LAMBDA l : l.rel = "child")

WithoutSelf(doc) == SelectSeq(doc.links, LAMBDA l : l.rel # "self")

\* C14 as stated: the updated catalog of every variable of the dataset
\* whose catalog existed has exactly one child link to the dataset's
\* collection, also when the loaded catalog had one already.
C14_AsStated ==
    DatasetInReview =>
        \A id \in VariableIds :
            file_exists(w.catalog, VariablePath(id)) =>
                Count(Value(run.file_dict, VariablePath(id)),
                      ProductChildLink(run.cfg.collection_id)) = 1

\* C15 as stated: the products base index never holds two child links with
\* the same target, neither in a batch nor in the catalog after the merge.
C15_AsStated ==
    /\ \A i \in DOMAIN w.catalog[ProductBasePath].links :
          Count(w.catalog[ProductBasePath],
                w.catalog[ProductBasePath].links[i]) = 1
    /\ DatasetBuilt =>
          Count(Value(run.file_dict, ProductBasePath),
                Link("child", Href(".", "", run.cfg.collection_id,
                                   "collection.json"))) = 1

\* C16: the project collection in the batch of a dataset publish keeps
\* every child link the loaded collection had, unchanged and in place, and
\* its child links are those plus the link to the published collection.
C16_ProjectChildrenUnion ==
    DatasetInReview =>
        LET old == w.catalog[DeepesdlCollectionPath]
            new == Value(run.file_dict, DeepesdlCollectionPath)
        IN /\ IsPrefix(ChildLinks(old), ChildLinks(new))
           /\ IsPrefix(WithoutSelf(old), WithoutSelf(new))
           /\ Range(ChildLinks(new)) =
                 Range(ChildLinks(old))
                 \cup {ProductChildLink(run.cfg.collection_id)}

\* The collection "c" was built against a project collection that lists
\* "d": the batch's project collection lists both.
C16_Witness ==
    /\ DatasetInReview
    /\ run.cfg.collection_id = <<"c">>
    /\ Range(ChildLinks(w.catalog[DeepesdlCollectionPath]))
          = {ProductChildLink(<<"d">>)}
    /\ Range(ChildLinks(Value(run.file_dict, DeepesdlCollectionPath)))
          = {ProductChildLink(<<"d">>), ProductChildLink(<<"c">>)}

\* C17: for each variable id of the dataset the batch holds exactly one
\* catalog: when the working copy has none, a fresh one with one root link,
\* one parent link, one child link (to the dataset's collection) and a via
\* link exactly when the variable's metadata has a gcmd_keyword_url; when
\* it has one, the loaded catalog with its links kept and the child link
\* added.
C17_VariableCatalogs ==
    DatasetInReview =>
        \A id \in VariableIds :
           LET path == VariablePath(id)
               new == Value(run.file_dict, path)
               url == Value(run.variables_metadata, id).gcmd_keyword_url
           IN /\ Cardinality({i \in DOMAIN run.file_dict :
                                 run.file_dict[i].key = path}) = 1
              /\ ~file_exists(w.catalog, path) =>
                    /\ Count(new, RootLink) = 1 /\ CountRel(new, "root") = 1
                    /\ Count(new, ParentLink) = 1
                    /\ CountRel(new, "parent") = 1
                    /\ Count(new, ProductChildLink(run.cfg.collection_id)) = 1
                    /\ CountRel(new, "child") = 1
                    /\ CountRel(new, "via") = (IF url # None THEN 1 ELSE 0)
              /\ file_exists(w.catalog, path) =>
                    WithoutSelf(new) =
                        Append(WithoutSelf(w.catalog[path]),
                               ProductChildLink(run.cfg.collection_id))

\* A dataset with the variables "v" (catalog present, no URL) and "u"
\* (catalog absent, with a URL) was built: "u" got a fresh catalog with a
\* via link, "v" its loaded catalog with one more child link.
C17_Witness ==
    /\ DatasetInReview
    /\ VariableIds = {<<"v">>, <<"u">>}
    /\ file_exists(w.catalog, VariablePath(<<"v">>))
    /\ ~file_exists(w.catalog, VariablePath(<<"u">>))
    /\ CountRel(Value(run.file_dict, VariablePath(<<"u">>)), "via") = 1
    /\ Len(Value(run.file_dict, VariablePath(<<"v">>)).links)
          = Len(w.catalog[VariablePath(<<"v">>)].links) + 1

GeneratedSections == {"products", "variables", "workflow", "experiments"}

SelfLinks(doc) == SelectSeq(doc.links, LAMBDA l : l.rel = "self")

\* C18 as stated: every generated document of a batch (dataset collection,
\* variable catalog, workflow record, experiment record) has one self link,
\* an absolute URL made of the section the document is written under, its
\* id and its file name, so that different ids give different self links;
\* its root and parent links are the relative paths of its depth.
C18_AsStated ==
    \A i \in DOMAIN run.file_dict :
       LET path == run.file_dict[i].key
           doc == run.file_dict[i].value
       IN (path[1] \in GeneratedSections /\ path[2] # <<>>) =>
             /\ Len(SelfLinks(doc)) = 1
             /\ SelfLinks(doc)[1].target[1] \in {OSC_BASE_URL, BASE_URL_OSC}
             /\ SelfLinks(doc)[1].target[2] = path[1]
             /\ SelfLinks(doc)[1].target[3] = path[2]
             /\ SelfLinks(doc)[1].target[4] = path[3]
             /\ Count(doc, RootLink) = 1
             /\ Count(doc, ParentLink) = 1

BetweenCloneAndPush ==
    {"pf_branch", "pf_add", "pf_commit", "pf_push",
     "pp_branch", "pp_add", "pp_commit", "pp_push"}

\* C19: overlapping publishes in one home directory share one clone path, so
\* none owns the directory: a cleanup that removes its directory removes the
\* directory of every publish, and a clone started while another publish is
\* between its clone and its push collides with that publish's directory
\* and fails.
C19_SharedClonePath ==
    /\ [](\A p \in Procs : \A q \in Procs :
            local_clone_dir(p) = local_clone_dir(q))
    /\ [][\A p \in Procs :
            /\ (/\ StepOf(conc.pc[p]) = "cleanup"
                /\ conc'.pc[p] = "done"
                /\ ~conc'.dirs[local_clone_dir(p)].exists) =>
                  \A q \in Procs : ~conc'.dirs[local_clone_dir(q)].exists
            /\ (/\ StepOf(conc.pc[p]) = "clone"
                /\ conc'.pc[p] # conc.pc[p]
                /\ \E q \in Procs \ {p} :
                      /\ conc.pc[q] \in BetweenCloneAndPush
                      /\ conc.dirs[local_clone_dir(q)].exists) =>
                  StepOf(conc'.pc[p]) # "branch"]_vars

\* One publish is between its clone and its push and its directory is
\* gone: the cleanup of the other publish, which has ended, removed it.
C19_Witness ==
    \E p \in Procs : \E q \in Procs \ {p} :
        /\ conc.pc[q] \in BetweenCloneAndPush
        /\ ~conc.dirs[local_clone_dir(q)].exists
        /\ conc.cwd[q] = "deleted"
        /\ conc.pc[p] = "done"

\* C20 as stated: the branch a publish is about to push has a name no
\* earlier run pushed to the fork, so no publish pushes onto a branch
\* created by an earlier run.
C20_AsStated ==
    pc \in PushPcs => run.branch \notin RemoteNames(w)

\* C21: the pull request of a publish is the one request the publish opens,
\* its head is the branch the publish created locally and pushed, its base
\* is the upstream base branch; the branch checked out, the branch pushed
\* and the pull-request head are the same name.
C21_PullRequestFromPushedBranch ==
    /\ (StepOk("branch") /\ ~HasStep("cleanup")) => w.repo.head = run.branch
    /\ StepOk("push") =>
          /\ StepOk("branch")
          /\ \E b \in w.pushed : b.name = run.branch
    /\ StepOk("pr") =>
          /\ StepOk("push")
          /\ Len(w.prs) = run.prs0 + 1
          /\ w.prs[Len(w.prs)].head = run.branch
          /\ w.prs[Len(w.prs)].base = "main"

\* A dataset publish stamped at second 1 has opened its pull request from
\* the branch it pushed.
C21_Witness ==
    /\ run.op = "publish_dataset"
    /\ StepOk("pr")
    /\ run.branch = BranchName(OSC_BRANCH_NAME, <<"c">>, <<1>>)
    /\ w.prs[Len(w.prs)].head = run.branch
    /\ run.branch \in RemoteNames(w)

\* C22: opening a dataset tries the public store first and the authenticated
\* store only when the public attempt failed; a success on the public store
\* ends the opening after one attempt; when both fail one ValueError is
\* raised that carries the two configurations in the order tried and the
\* exception of the last attempt; never more than two attempts are made.
C22_PublicThenAuthenticated ==
    gen.state # "none" =>
        LET public == gen.outcomes["Public store"]
            authenticated == gen.outcomes["Authenticated store"]
        IN /\ gen.attempts = Len(gen.tried)
           /\ gen.attempts \in {1, 2}
           /\ gen.tried[1] = "Public store"
           /\ public = "ok" =>
                 /\ gen.tried = <<"Public store">>
                 /\ gen.state = "open" /\ gen.exc = NoExc
           /\ public # "ok" =>
                 gen.tried = <<"Public store", "Authenticated store">>
           /\ (public # "ok" /\ authenticated = "ok") =>
                 (gen.state = "open" /\ gen.exc = NoExc)
           /\ (gen.state = "failed") <=> (public # "ok" /\ authenticated # "ok")
           /\ gen.state = "failed" =>
                 /\ gen.exc.cls = "ValueError"
                 /\ gen.exc.detail = "Failed to open Zarr dataset"
                 /\ gen.last_exception = authenticated

\* Both stores failed, each with its own exception: the constructor raised
\* after two attempts, naming both stores and the authenticated store's
\* exception.
C22_Witness ==
    /\ gen.state = "failed"
    /\ gen.outcomes = StoreOutcomes("DataStoreError", "PermissionError")
    /\ gen.tried = <<"Public store", "Authenticated store">>
    /\ gen.last_exception = "PermissionError"
    /\ gen.exc.cls = "ValueError"

\* An attribute is present when the variable has it with a non-empty value.
Present(attr) == attr # NoneName /\ attr # <<>>

\* The name a variable's id derives from.
IdSource(v) ==
    IF Present(v.long_name) THEN v.long_name
    ELSE IF Present(v.standard_name) THEN v.standard_name
    ELSE v.name

UpperCase == {"W", "V", "X", "F", "L", "S", "K"}

\* C23: the id of each data variable derives from its long_name if present
\* (an absent or empty attribute is not present), else from its
\* standard_name, else from its key: it has the length of that name, no
\* space and no upper-case letter, each space being replaced by a hyphen
\* and each letter lower-cased; every variable gets an id, also one with
\* neither attribute, and the metadata is filed under that id.
C23_VariableIdDerivation ==
    gen.state = "open" =>
        \A i \in DOMAIN gen.dataset.data_vars :
           LET v == gen.dataset.data_vars[i]
               id == _normalize_name(IdSource(v))
           IN /\ id # NoneName
              /\ Len(id) = Len(IdSource(v))
              /\ \A j \in DOMAIN id :
                    /\ id[j] \notin UpperCase \cup {" "}
                    /\ IdSource(v)[j] = " " => id[j] = "-"
                    /\ IdSource(v)[j] \notin UpperCase \cup {" "} =>
                          id[j] = IdSource(v)[j]
              /\ \E k \in DOMAIN gen.variables_metadata :
                    /\ gen.variables_metadata[k].key = id
                    /\ gen.variables_metadata[k].value.variable_id = id

\* A dataset whose one variable "K" has long_name "L n" and standard_name
\* "S" was opened: its id is "l-n".
C23_Witness ==
    /\ gen.state = "open"
    /\ gen.dataset.data_vars =
          <<Variable(<<"K">>, <<"L", " ", "n">>, <<"S">>, None)>>
    /\ Keys(gen.variables_metadata) = << <<"l", "-", "n">> >>

SpatialPairs == << <<"lon", "lat">>, <<"longitude", "latitude">>, <<"x", "y">> >>

PairPresent(i) == {SpatialPairs[i][1], SpatialPairs[i][2]} \subseteq gen.dataset.coords

C24_WitnessMissing ==
    /\ gen.extent.called
    /\ gen.dataset.coords = {"lon", "latitude", "x"}
    /\ gen.extent.exc.cls = "ValueError"

\* The titles of a catalog: its own and those of its links.
TitlesOf(catalog) ==
    {catalog.title} \cup {catalog.links[i].title : i \in DOMAIN catalog.links}

\* C25 as stated: once the products index has been cleaned, none of its
\* titles (its own, and those of its links) holds a non-breaking space or a
\* degree sign, and a title that held neither is as it was.
C25_AsStated ==
    gen.index # NoIndex =>
        /\ \A t \in TitlesOf(gen.cleaned) \ {NoneName} :
              NBSP \notin Range(t) /\ DEGREE \notin Range(t)
        /\ (gen.index.title # NoneName
              /\ Range(gen.index.title) \cap {NBSP, DEGREE} = {}) =>
                 gen.cleaned.title = gen.index.title
        /\ \A i \in DOMAIN gen.index.links :
              (gen.index.links[i].title # NoneName
                 /\ Range(gen.index.links[i].title) \cap {NBSP, DEGREE} = {}) =>
                    gen.cleaned.links[i].title = gen.index.links[i].title

\* The exception a failing step of the publish sequence raises.
StepError(s) ==
    CASE s = "fork" -> HTTPError("forks")
      [] s = "clone" -> CalledProcessError("clone")
      [] s = "branch" -> CalledProcessError("checkout")
      [] s = "add" -> CalledProcessError("add")
      [] s = "commit" -> CalledProcessError("commit")
      [] s = "push" -> CalledProcessError("push")
      [] OTHER -> HTTPError("pulls")

AStepFailed == \E i \in DOMAIN log : ~log[i].ok /\ log[i].step # "cleanup"

\* C26: when a step of a publish failed and the cleanup then ran, the
\* exception pending during the cleanup, and the one that reaches the
\* caller when the call ends, is the failed step's own exception, whether
\* the cleanup removed the directory or its rm failed.
C26_CleanupKeepsStepError ==
    /\ (pc \in {"pf_cleanup", "pp_cleanup"} /\ AStepFailed) =>
          exc = StepError(log[FailedStep].step)
    /\ (pc = "idle" /\ AStepFailed /\ HasStep("cleanup")) =>
          /\ last.exc = StepError(log[FailedStep].step)
          /\ last.op = run.op

\* A dataset publish whose push failed has ended after a cleanup whose rm
\* failed as well: the caller got the push's error.
C26_Witness ==
    /\ pc = "idle" /\ last.op = "publish_dataset"
    /\ StepFailed("push")
    /\ log[Len(log)] = [step |-> "cleanup", ok |-> FALSE]
    /\ w.dir
    /\ last.exc = CalledProcessError("push")

\* The path a relative link target names, from a document two levels below
\* the catalog root.
Resolve(target) == <<target[2], target[3], target[4]>>

\* The links of a generated record to another document of the catalog: the
\* collection's links to its variable catalogs, the workflow record's link
\* to its experiment, the experiment record's link to its workflow.
IsCrossLink(path, link) ==
    /\ link.target[1] = "../.."
    /\ \/ path[1] = "products" /\ path[2] # <<>> /\ link.rel = "related"
       \/ path[1] = "workflow" /\ link.rel = "child"
       \/ path[1] = "experiments" /\ link.rel = "related"
                                  /\ link.target[2] # "projects"

\* C27 as stated: every cross-link of a record of the batch resolves, from
\* the record's path, to the path under which the batch writes the document
\* linked: variables/<id>/catalog.json, workflow/<id>/record.json or
\* experiments/<id>/record.json.
C27_AsStated ==
    \A i \in DOMAIN run.file_dict :
       \A j \in DOMAIN run.file_dict[i].value.links :
          LET link == run.file_dict[i].value.links[j] IN
          IsCrossLink(run.file_dict[i].key, link) =>
             /\ Resolve(link.target) \in Range(Keys(run.file_dict))
             /\ Resolve(link.target)[1] \in {"variables", "workflow", "experiments"}

\* A publish_files call on an instance that has had one before is at its
\* branch step.
LaterPublishAtBranch == pc = "pf_branch" /\ pub.published

C29_AsStated ==
    [][(pc = "pp_cleanup" /\ ~HasStep("clone")) =>
          /\ w'.cwd = w.cwd
          /\ w.dir => w'.dir]_vars

\* The last data variable of the current publish whose id is the given one.
LastWithId(id) ==
    run.data_vars[CHOOSE i \in DOMAIN run.data_vars :
       /\ _normalize_name(run.data_vars[i].name) = id
       /\ \A j \in DOMAIN run.data_vars :
             _normalize_name(run.data_vars[j].name) = id => j <= i]

\* The batch entries that are catalogs of single variables.
VariableCatalogEntries ==
    {i \in DOMAIN run.file_dict :
        run.file_dict[i].key[1] = "variables" /\ run.file_dict[i].key[2] # <<>>}

\* C30: the variable id list of a dataset has no duplicates and holds
\* exactly the distinct ids of its data variables; the metadata filed under
\* an id is that of the last data variable with the id; the collection has
\* one variable link, and the batch one variable catalog, per distinct id,
\* also when the dataset has more data variables than distinct ids.
C30_VariableIdsDistinct ==
    DatasetBuilt =>
        LET ids == get_variable_ids(run.variables_metadata)
            collection == Value(run.file_dict,
                                ProductPath(run.cfg.collection_id))
        IN /\ \A i \in DOMAIN ids : \A j \in DOMAIN ids :
                 i # j => ids[i] # ids[j]
           /\ Range(ids) = VariableIds
           /\ \A id \in VariableIds :
                 Value(run.variables_metadata, id) =
                    [variable_id |-> id,
                     gcmd_keyword_url |-> LastWithId(id).gcmd_keyword_url]
           /\ CountRel(collection, "related") = Cardinality(VariableIds)
           /\ \A id \in VariableIds :
                 Cardinality({i \in DOMAIN collection.links :
                    /\ collection.links[i].rel = "related"
                    /\ collection.links[i].target[3] = id}) = 1
           /\ Cardinality(VariableCatalogEntries) = Cardinality(VariableIds)

\* A dataset whose two data variables "V" and "v" share the id "v", the
\* second with a gcmd_keyword_url, was built against a catalog without that
\* variable: one id, one fresh catalog, with the via link of the second.
C30_Witness ==
    /\ DatasetInReview
    /\ Len(run.data_vars) = 2 /\ VariableIds = {<<"v">>}
    /\ get_variable_ids(run.variables_metadata) = << <<"v">> >>
    /\ ~file_exists(w.catalog, VariablePath(<<"v">>))
    /\ CountRel(Value(run.file_dict, VariablePath(<<"v">>)), "via") = 1

====
